---------------------------- MODULE Spec2Model ----------------------------
(***************************************************************************)
(* A model of the data-quality auditor of the PM2.5 dashboard              *)
(* (streamlit_app/scripts/data_cleaning.py) and of the caller that holds   *)
(* the tables it is applied to (pages/2_Missing_Outlier_Report.py).        *)
(*                                                                         *)
(* Numbers.  The value column holds floats.  The model takes integer       *)
(* values and NaN, and computes every derived quantity exactly:            *)
(*   - a cell is a record [nan, num, den]: NaN, or the rational num/den;   *)
(*   - a z-score is a record [nan, sgn, sqnum, sqden]: NaN, or             *)
(*     sgn * sqrt(sqnum / sqden).                                          *)
(* For the small integers of the model the quartiles and the IQR bounds    *)
(* are dyadic rationals, which binary floating point represents exactly;   *)
(* the z-score comparison is the exact-arithmetic one.                     *)
(***************************************************************************)
EXTENDS Integers, Sequences, FiniteSets, TLC

VARIABLES
    tabs,   \* the table objects the caller holds; tabs[1] is the loaded table
    call    \* the last call made: operation, arguments, result

vars == <<tabs, call>>

(***************************************************************************)
(* Bounds of the model.                                                    *)
(***************************************************************************)
MaxRows == 3        \* rows of a value table enumerated in every row order
MaxSortedRows == 5  \* rows of a value table enumerated in one row order
MaxAuditRows == 2   \* rows of an enumerated three-column table
MaxPad == 11        \* longest run of equal values in a padded table
MaxTabs == 4        \* table objects the caller holds at once
MaxPMRows == 2      \* rows of an enumerated table of the PM2.5 data set
MaxPMSortedRows == 3 \* rows of a table of the data set enumerated in one order
MaxPasses == 3      \* repetitions of the outlier section of the report page

(***************************************************************************)
(* Cells.                                                                  *)
(***************************************************************************)
NaN == [nan |-> TRUE, num |-> 0, den |-> 1]
Num(n) == [nan |-> FALSE, num |-> n, den |-> 1]
Rat(n, d) == [nan |-> FALSE, num |-> n, den |-> d]
Str(v) == [nan |-> FALSE, str |-> v]     \* a cell holding a string

\* Float arithmetic: NaN propagates; comparisons with NaN are false.
FSub(a, b) ==
    IF a.nan \/ b.nan THEN NaN
    ELSE Rat(a.num * b.den - b.num * a.den, a.den * b.den)
FAdd(a, b) ==
    IF a.nan \/ b.nan THEN NaN
    ELSE Rat(a.num * b.den + b.num * a.den, a.den * b.den)
FScale(n, d, a) == IF a.nan THEN NaN ELSE Rat(n * a.num, d * a.den)
FLt(a, b) == ~a.nan /\ ~b.nan /\ a.num * b.den < b.num * a.den
FGt(a, b) == FLt(b, a)
FEq(a, b) == ~a.nan /\ ~b.nan /\ a.num * b.den = b.num * a.den


\* the same number as a fraction in lowest terms, the denominator positive
Abs(n) == IF n < 0 THEN -n ELSE n
RECURSIVE GCD(_, _)
GCD(a, b) == IF b = 0 THEN a ELSE GCD(b, a % b)
FReduce(a) ==
    IF a.nan THEN NaN
    ELSE LET g == GCD(Abs(a.num), Abs(a.den))
             sg == IF a.den < 0 THEN -1 ELSE 1
         IN Rat((sg * a.num) \div g, (sg * a.den) \div g)

Range(s) == {s[i] : i \in DOMAIN s}

RECURSIVE SumSeq(_)
SumSeq(s) == IF s = <<>> THEN 0 ELSE Head(s) + SumSeq(Tail(s))

(***************************************************************************)
(* Tables (pandas DataFrame): an ordered list of column names, the index   *)
(* (one label per row) and an ordered list of rows, each row a function    *)
(* from column name to cell.                                               *)
(***************************************************************************)
NRows(df) == Len(df.rows)
Columns(df) == Range(df.cols)
HasColumn(df, c) == c \in Columns(df)
Column(df, c) == [i \in 1..NRows(df) |-> df.rows[i][c]]

\* df[c] = vals: overwrite the column in place, or append it as the last one.
SetColumn(df, c, vals) ==
    [cols |-> IF HasColumn(df, c) THEN df.cols ELSE Append(df.cols, c),
     index |-> df.index,
     rows |-> [i \in 1..NRows(df) |->
                 [k \in Columns(df) \cup {c} |->
                     IF k = c THEN vals[i] ELSE df.rows[i][k]]]]

\* df[mask]: the rows whose mask entry is true, in order, all columns.
RECURSIVE MaskRows(_, _)
MaskRows(rows, mask) ==
    IF rows = <<>> THEN <<>>
    ELSE (IF Head(mask) THEN <<Head(rows)>> ELSE <<>>)
         \o MaskRows(Tail(rows), Tail(mask))
BoolIndex(df, mask) ==
    [cols |-> df.cols,
     index |-> MaskRows(df.index, mask),
     rows |-> MaskRows(df.rows, mask)]

\* the rows of df at the positions f[1], f[2], ..., with their index labels
TakeRows(df, f) ==
    [cols |-> df.cols,
     index |-> [k \in 1..Len(f) |-> df.index[f[k]]],
     rows |-> [k \in 1..Len(f) |-> df.rows[f[k]]]]

\* a sample that is cut down to the rows there are
sample_at_most(df, n) ==
    LET m == IF NRows(df) < n THEN NRows(df) ELSE n
    IN [raises |-> "none",
        results |-> {TakeRows(df, f) :
                        f \in {g \in [1..m -> 1..NRows(df)] :
                                  \A a, b \in 1..m : a # b => g[a] # g[b]}}]

\* DataFrame.sample(n), replace=False: n rows drawn at random, each row at
\* most once, in the order drawn; results is the set of tables the draw can
\* give.  More than the table has is a ValueError.
sample(df, n) ==
    IF NRows(df) < n THEN [raises |-> "ValueError", results |-> {}]
    ELSE [raises |-> "none",
          results |-> {TakeRows(df, f) :
                          f \in {g \in [1..n -> 1..NRows(df)] :
                                    \A a, b \in 1..n : a # b => g[a] # g[b]}}]

(***************************************************************************)
(* pandas / numpy / scipy primitives used by data_cleaning.py.             *)
(***************************************************************************)
\* Series.dropna(): the non-missing entries, in order.
DropNa(s) == SelectSeq(s, LAMBDA c : ~c.nan)

\* np.sort of a sequence of numbers (ascending).
RECURSIVE Insert(_, _)
Insert(x, s) ==
    IF s = <<>> THEN <<x>>
    ELSE IF ~FLt(Head(s), x) THEN <<x>> \o s
    ELSE <<Head(s)>> \o Insert(x, Tail(s))
RECURSIVE SortAsc(_)
SortAsc(s) == IF s = <<>> THEN <<>> ELSE Insert(Head(s), SortAsc(Tail(s)))

\* Series.quantile(qn/qd), interpolation='linear': missing entries are
\* skipped; the empty column gives NaN; otherwise the value at position
\* q*(n-1) of the sorted values, interpolated between its two neighbours.
quantile(s, qn, qd) ==
    LET v == DropNa(s)
        n == Len(v)
    IN IF n = 0 THEN NaN
       ELSE LET sorted == SortAsc(v)
                lo == (qn * (n - 1)) \div qd
                fr == (qn * (n - 1)) % qd
                a == sorted[lo + 1]
                b == sorted[IF fr = 0 THEN lo + 1 ELSE lo + 2]
            IN FReduce(FAdd(a, FScale(fr, qd, FSub(b, a))))

\* np.where(cond, 1, 0)
npwhere(cond) == IF cond THEN Num(1) ELSE Num(0)

\* z-scores: NaN, or sgn * sqrt(sqnum / sqden).
ZNaN == [nan |-> TRUE, sgn |-> 0, sqnum |-> 0, sqden |-> 1]
Sign(d) == IF d > 0 THEN 1 ELSE IF d < 0 THEN -1 ELSE 0

\* zscore that gives 0 where the standard deviation is 0
zscore_zero_std(a) ==
    LET n == Len(a)
        anynan == \E i \in 1..n : a[i].nan
        S == SumSeq([i \in 1..n |-> a[i].num])
        SS == SumSeq([i \in 1..n |-> a[i].num * a[i].num])
        V == n * SS - S * S
    IN [i \in 1..n |->
          IF anynan THEN ZNaN
          ELSE IF V = 0 THEN [nan |-> FALSE, sgn |-> 0, sqnum |-> 0, sqden |-> 1]
          ELSE LET d == n * a[i].num - S
               IN [nan |-> FALSE, sgn |-> Sign(d), sqnum |-> d * d, sqden |-> V]]

\* zscore with ddof=1: the sample standard deviation, divisor n - 1
zscore_ddof1(a) ==
    LET n == Len(a)
        anynan == \E i \in 1..n : a[i].nan
        S == SumSeq([i \in 1..n |-> a[i].num])
        SS == SumSeq([i \in 1..n |-> a[i].num * a[i].num])
        V == n * SS - S * S
    IN [i \in 1..n |->
          IF anynan \/ V = 0 THEN ZNaN
          ELSE LET d == n * a[i].num - S
               IN [nan |-> FALSE, sgn |-> Sign(d),
                   sqnum |-> d * d * (n - 1), sqden |-> n * V]]

\* zscore with nan_policy='omit': mean and std of the values that are not
\* missing, NaN on the missing rows only
zscore_omit(a) ==
    LET rows == {i \in 1..Len(a) : ~a[i].nan}
        n == Cardinality(rows)
        S == SumSeq([i \in 1..Len(a) |-> IF a[i].nan THEN 0 ELSE a[i].num])
        SS == SumSeq([i \in 1..Len(a) |->
                        IF a[i].nan THEN 0 ELSE a[i].num * a[i].num])
        V == n * SS - S * S
    IN [i \in 1..Len(a) |->
          IF a[i].nan \/ V = 0 THEN ZNaN
          ELSE LET d == n * a[i].num - S
               IN [nan |-> FALSE, sgn |-> Sign(d), sqnum |-> d * d, sqden |-> V]]

\* scipy.stats.zscore(a) with its defaults ddof=0, nan_policy='propagate':
\* (a - mean) / std, std the population standard deviation.  With S the sum
\* and SS the sum of squares of the n values,
\*     z_i = (n*a_i - S) / sqrt(n*SS - S^2).
\* One NaN makes the mean, and so every z, NaN; a zero std gives 0/0 = NaN.
zscore(a) ==
    LET n == Len(a)
        anynan == \E i \in 1..n : a[i].nan
        S == SumSeq([i \in 1..n |-> a[i].num])
        SS == SumSeq([i \in 1..n |-> a[i].num * a[i].num])
        V == n * SS - S * S
    IN [i \in 1..n |->
          IF anynan \/ V = 0 THEN ZNaN
          ELSE LET d == n * a[i].num - S
               IN [nan |-> FALSE, sgn |-> Sign(d), sqnum |-> d * d, sqden |-> V]]

\* np.abs on a z-score
npabs(z) == IF z.nan THEN z ELSE [z EXCEPT !.sgn = IF z.sgn = 0 THEN 0 ELSE 1]

\* z > k for a z-score and a natural k (false for NaN)
ZGt(z, k) == ~z.nan /\ z.sgn = 1 /\ z.sqnum > k * k * z.sqden

(***************************************************************************)
(* The heap of table objects.  A function of the program receives a        *)
(* reference; df.copy() allocates a new object, df[c] = ... writes into    *)
(* the object the reference names.                                         *)
(***************************************************************************)
\* df.dropna() in place of df.copy(): a new object without the rows that
\* hold a missing cell
DfCopyDropna(h, r) ==
    [h |-> Append(h, BoolIndex(h[r],
                        [i \in 1..NRows(h[r]) |->
                            \A k \in Columns(h[r]) : ~h[r].rows[i][k].nan])),
     r |-> Len(h) + 1]
\* no copy: the reference itself
DfAlias(h, r) == [h |-> h, r |-> r]
DfCopy(h, r) == [h |-> Append(h, h[r]), r |-> Len(h) + 1]
\* a column is written only if the table does not have it yet
SetItemIfAbsent(h, r, c, vals) ==
    IF HasColumn(h[r], c) THEN h ELSE [h EXCEPT ![r] = SetColumn(h[r], c, vals)]
SetItem(h, r, c, vals) == [h EXCEPT ![r] = SetColumn(h[r], c, vals)]

(***************************************************************************)
(* data_cleaning.py                                                        *)
(***************************************************************************)
\* Q1 - 1.5*IQR and Q3 + 1.5*IQR
lower_bound(x) ==
    LET Q1 == quantile(x, 1, 4)
        Q3 == quantile(x, 3, 4)
        IQR == FSub(Q3, Q1)
    IN FSub(Q1, FScale(3, 2, IQR))
upper_bound(x) ==
    LET Q1 == quantile(x, 1, 4)
        Q3 == quantile(x, 3, 4)
        IQR == FSub(Q3, Q1)
    IN FAdd(Q3, FScale(3, 2, IQR))

\* the IQR rule with the bounds themselves counted as outliers
outlier_IQR_nonstrict(x) ==
    LET lo == lower_bound(x)
        hi == upper_bound(x)
    IN [i \in 1..Len(x) |->
          npwhere(FLt(x[i], lo) \/ FEq(x[i], lo) \/ FGt(x[i], hi) \/ FEq(x[i], hi))]

\* np.where((df[target_col] < lower_bound) | (df[target_col] > upper_bound), 1, 0)
outlier_IQR(x) ==
    LET lo == lower_bound(x)
        hi == upper_bound(x)
    IN [i \in 1..Len(x) |-> npwhere(FLt(x[i], lo) \/ FGt(x[i], hi))]

\* the z-scores without np.abs
z_score_signed(x) == zscore(x)

\* np.abs(stats.zscore(df[target_col]))
z_score(x) == LET z == zscore(x) IN [i \in 1..Len(x) |-> npabs(z[i])]

\* the z rule written as "not within three standard deviations"
outlier_z_not_within(z) ==
    [i \in 1..Len(z) |-> npwhere(~(~z[i].nan /\ ~ZGt(z[i], 3)))]

\* np.where(df['z_score'] > 3, 1, 0)
outlier_z(z) == [i \in 1..Len(z) |-> npwhere(ZGt(z[i], 3))]

\* lines 18-39 of detect_outliers: the three columns written into the
\* table object df of the heap h
write_flags(h, df, target_col) ==
    LET h1 == SetItem(h, df, "outlier_IQR",
                      outlier_IQR(Column(h[df], target_col)))
        h2 == SetItem(h1, df, "z_score", z_score(Column(h1[df], target_col)))
        h3 == SetItem(h2, df, "outlier_z", outlier_z(Column(h2[df], "z_score")))
    IN [h |-> h3, r |-> df]

\* detect_outliers returning the copy of an empty table as it is
detect_outliers_skip_empty(h, r, target_col) ==
    LET c == DfCopy(h, r)
    IN IF NRows(h[r]) = 0 THEN c ELSE write_flags(c.h, c.r, target_col)

\* detect_outliers(df, target_col) on the heap h, df the reference r:
\* df = df.copy(), then the three columns are written into the copy.
\* Returns the heap after the call and the reference returned.
detect_outliers(h, r, target_col) ==
    LET c == DfCopy(h, r) IN write_flags(c.h, c.r, target_col)

\* df.isnull().sum(): one entry per column, in column order
isnull_sum(df) ==
    [k \in 1..Len(df.cols) |->
        [index |-> df.cols[k],
         value |-> Cardinality({i \in 1..NRows(df) : df.rows[i][df.cols[k]].nan})]]

\* Series.sort_values(ascending=False): the stable sort pandas applies to
\* a short series, entries of equal value keeping their order.
RECURSIVE InsertDesc(_, _)
InsertDesc(e, s) ==
    IF s = <<>> THEN <<e>>
    ELSE IF e.value >= Head(s).value THEN <<e>> \o s
    ELSE <<Head(s)>> \o InsertDesc(e, Tail(s))
RECURSIVE sort_values_desc(_)
sort_values_desc(s) ==
    IF s = <<>> THEN <<>> ELSE InsertDesc(Head(s), sort_values_desc(Tail(s)))

\* get_missing_data without the sort
get_missing_data_unsorted(df) ==
    SelectSeq(isnull_sum(df), LAMBDA e : e.value > 0)

\* missing = df.isnull().sum().sort_values(ascending=False); missing[missing > 0]
get_missing_data(df) ==
    LET missing == sort_values_desc(isnull_sum(df))
    IN SelectSeq(missing, LAMBDA e : e.value > 0)

\* df.duplicated(keep=False): every row that has an equal row is marked
duplicated_keep_false(df) ==
    [i \in 1..NRows(df) |->
        \E j \in 1..NRows(df) : j # i /\ df.rows[j] = df.rows[i]]

\* df.duplicated(): row i is marked iff an earlier row equals it in every
\* column (keep='first'; two missing cells count as equal).
duplicated(df) ==
    [i \in 1..NRows(df) |-> \E j \in 1..(i - 1) : df.rows[j] = df.rows[i]]

\* df.duplicated().sum()
count_duplicates(df) ==
    LET d == duplicated(df) IN Cardinality({i \in 1..NRows(df) : d[i]})

\* original_df['outlier_IQR'].sum()
column_sum(df, c) == SumSeq([i \in 1..NRows(df) |-> df.rows[i][c].num])

\* the summary with the outliers of cleaned_df counted
generate_cleaning_summary_recount(original_df, cleaned_df) ==
    << [Metric |-> "Total Rows",
        Before |-> NRows(original_df), After |-> NRows(cleaned_df)],
       [Metric |-> "Total Columns",
        Before |-> Len(original_df.cols), After |-> Len(cleaned_df.cols)],
       [Metric |-> "Total Outliers",
        Before |-> column_sum(original_df, "outlier_IQR"),
        After |-> IF HasColumn(cleaned_df, "outlier_IQR")
                  THEN column_sum(cleaned_df, "outlier_IQR") ELSE 0] >>

\* generate_cleaning_summary(original_df, cleaned_df): three metric rows
generate_cleaning_summary(original_df, cleaned_df) ==
    << [Metric |-> "Total Rows",
        Before |-> NRows(original_df), After |-> NRows(cleaned_df)],
       [Metric |-> "Total Columns",
        Before |-> Len(original_df.cols), After |-> Len(cleaned_df.cols)],
       [Metric |-> "Total Outliers",
        Before |-> column_sum(original_df, "outlier_IQR"), After |-> 0] >>

(***************************************************************************)
(* filters.py                                                              *)
(***************************************************************************)
\* a range of years that leaves out its last year
between_right_open(c, left, right) == ~c.nan /\ left <= c.num /\ c.num < right

\* Series.between(left, right): both ends inclusive, false on a missing cell
between(c, left, right) == ~c.nan /\ left <= c.num /\ c.num <= right

\* Series.isin(values) on a column of strings
isin(c, values) == ~c.nan /\ c.str \in values

\* apply_filters(df, years, regions, dim1): the rows that pass all three
\* conditions, as a new table
apply_filters(df, years, regions, dim1) ==
    BoolIndex(df, [i \in 1..NRows(df) |->
                      /\ between(df.rows[i]["Period"], years[1], years[2])
                      /\ isin(df.rows[i]["ParentLocation"], regions)
                      /\ isin(df.rows[i]["Dim1"], dim1)])

(***************************************************************************)
(* regression.py                                                           *)
(***************************************************************************)
\* the strings of the model in lexicographic order
LevelOrder == <<"Africa", "Armenia", "Cities", "Europe", "Kenya", "Rural">>

\* the categories of a column of strings: its distinct values, sorted
Levels(df, c) ==
    SelectSeq(LevelOrder,
              LAMBDA l : \E i \in 1..NRows(df) :
                            ~df.rows[i][c].nan /\ df.rows[i][c].str = l)

\* drop_first=False: an indicator column for every category
DummyLevelsAll(df, c) == Levels(df, c)

\* the category of the first row that has one is dropped
DummyLevelsFirstObserved(df, c) ==
    LET seen == {i \in 1..NRows(df) : ~df.rows[i][c].nan}
        first == CHOOSE i \in seen : \A j \in seen : i <= j
    IN IF seen = {} THEN <<>>
       ELSE SelectSeq(Levels(df, c), LAMBDA l : l # df.rows[first][c].str)

\* the indicator columns of one categorical column, the first category dropped
DummyLevels(df, c) == IF Levels(df, c) = <<>> THEN <<>> ELSE Tail(Levels(df, c))
DummyNames(df, c) ==
    [k \in 1..Len(DummyLevels(df, c)) |-> c \o "_" \o DummyLevels(df, c)[k]]

RECURSIVE ConcatAll(_)
ConcatAll(ss) == IF ss = <<>> THEN <<>> ELSE Head(ss) \o ConcatAll(Tail(ss))

\* a column of dtype object: it holds text, or the table read has no row.
\* A column with rows and no value in any of them is read as float64.
IsText(df, c) ==
    NRows(df) = 0 \/ \E i \in 1..NRows(df) : "str" \in DOMAIN df.rows[i][c]

\* pd.get_dummies(df[categorical_cols], drop_first=True).astype(float):
\* the columns that are not text are kept as they are and come first; then,
\* per text column, in order, one 0/1 column for each category but the
\* first; a missing cell gives zeros (dummy_na=False)
get_dummies(df, categorical_cols) ==
    LET kept == SelectSeq(categorical_cols, LAMBDA c : ~IsText(df, c))
        enc == SelectSeq(categorical_cols, LAMBDA c : IsText(df, c))
        names == kept \o ConcatAll([k \in 1..Len(enc) |-> DummyNames(df, enc[k])])
        cell(i, c, l) ==
            IF ~df.rows[i][c].nan /\ df.rows[i][c].str = l THEN Num(1) ELSE Num(0)
        row(i) ==
            [n \in Range(names) |->
                IF n \in Range(kept) THEN df.rows[i][n]
                ELSE LET c == CHOOSE c \in Range(enc) :
                                \E l \in Range(DummyLevels(df, c)) : n = c \o "_" \o l
                         l == CHOOSE l \in Range(DummyLevels(df, c)) : n = c \o "_" \o l
                     IN cell(i, c, l)]
    IN [cols |-> names, index |-> df.index,
        rows |-> [i \in 1..NRows(df) |-> row(i)]]

\* a column all of whose cells hold the same non-zero number
\* (np.ptp(s) == 0.0 and np.any(s != 0.0); false on a column of NaN)
NonZeroConstant(X, c) ==
    /\ NRows(X) > 0
    /\ ~X.rows[1][c].nan
    /\ \A i \in 1..NRows(X) : X.rows[i][c] = X.rows[1][c]
    /\ ~FEq(X.rows[1][c], Num(0))

\* prepend=False: the column of ones comes last
add_constant_appended(X) ==
    IF \E c \in Columns(X) : NonZeroConstant(X, c) THEN X
    ELSE [cols |-> X.cols \o <<"const">>, index |-> X.index,
          rows |-> [i \in 1..NRows(X) |->
                      [k \in Columns(X) \cup {"const"} |->
                          IF k = "const" THEN Num(1) ELSE X.rows[i][k]]]]

\* sm.add_constant(X): a first column 'const' of ones, unless X already
\* holds a non-zero constant column (has_constant='skip')
add_constant(X) ==
    IF \E c \in Columns(X) : NonZeroConstant(X, c) THEN X
    ELSE [cols |-> <<"const">> \o X.cols, index |-> X.index,
          rows |-> [i \in 1..NRows(X) |->
                      [k \in Columns(X) \cup {"const"} |->
                          IF k = "const" THEN Num(1) ELSE X.rows[i][k]]]]

\* a Series: the index and one value per row
Series(df, c) == [index |-> df.index, values |-> Column(df, c)]

(***************************************************************************)
(* Least squares.  statsmodels fits OLS with the Moore-Penrose pseudo-      *)
(* inverse of the design matrix, params = pinv(X) . y, which is the        *)
(* least-squares solution of minimum norm.  The model computes it in exact *)
(* rational arithmetic: a solution of the normal equations X'X b = X'y by  *)
(* Gauss-Jordan elimination, less its component in the null space of X.    *)
(***************************************************************************)
QAdd(a, b) == FReduce(FAdd(a, b))
QSub(a, b) == FReduce(FSub(a, b))
QMul(a, b) == IF a.nan \/ b.nan THEN NaN ELSE FReduce(Rat(a.num * b.num, a.den * b.den))
QDiv(a, b) == IF a.nan \/ b.nan THEN NaN ELSE FReduce(Rat(a.num * b.den, a.den * b.num))

RECURSIVE QSum(_)
QSum(s) == IF s = <<>> THEN Num(0) ELSE QAdd(Head(s), QSum(Tail(s)))
Dot(u, v) == QSum([k \in 1..Len(u) |-> QMul(u[k], v[k])])

\* the design matrix as an array: one sequence of numbers per row
exog(X) == [i \in 1..NRows(X) |-> [k \in 1..Len(X.cols) |-> X.rows[i][X.cols[k]]]]

\* row p divided by its entry in column c, and column c cleared from the
\* other rows
Pivot(M, p, c) ==
    LET piv == [k \in 1..Len(M[p]) |-> QDiv(M[p][k], M[p][c])]
    IN [r \in 1..Len(M) |->
          IF r = p THEN piv
          ELSE [k \in 1..Len(M[r]) |-> QSub(M[r][k], QMul(M[r][c], piv[k]))]]
Swap(M, p, q) ==
    [r \in 1..Len(M) |-> IF r = p THEN M[q] ELSE IF r = q THEN M[p] ELSE M[r]]

\* Gauss-Jordan elimination on the columns c..ncols of M: the reduced
\* matrix and the pivot column of each of its leading rows
RECURSIVE Rref(_, _, _, _)
Rref(M, c, ncols, pivots) ==
    IF c > ncols \/ Len(pivots) = Len(M) THEN [M |-> M, pivots |-> pivots]
    ELSE LET cand == {r \in (Len(pivots) + 1)..Len(M) : M[r][c].num # 0}
         IN IF cand = {} THEN Rref(M, c + 1, ncols, pivots)
            ELSE LET p == CHOOSE r \in cand : \A q \in cand : r <= q
                     t == Len(pivots) + 1
                 IN Rref(Pivot(Swap(M, p, t), t, c), c + 1, ncols,
                         Append(pivots, c))

\* A | b reduced, A a k x k matrix
Reduced(A, b) ==
    Rref([r \in 1..Len(A) |-> Append(A[r], b[r])], 1, Len(A), <<>>)

\* the solution of A x = b whose free unknowns are 0
Particular(A, b) ==
    LET R == Reduced(A, b)
    IN [j \in 1..Len(A) |->
          IF \E t \in 1..Len(R.pivots) : R.pivots[t] = j
          THEN R.M[CHOOSE t \in 1..Len(R.pivots) : R.pivots[t] = j][Len(A) + 1]
          ELSE Num(0)]

\* a basis of the null space of A: one vector per free unknown
NullBasis(A) ==
    LET R == Reduced(A, [r \in 1..Len(A) |-> Num(0)])
        free == SelectSeq([j \in 1..Len(A) |-> j],
                          LAMBDA j : \A t \in 1..Len(R.pivots) : R.pivots[t] # j)
    IN [f \in 1..Len(free) |->
          [j \in 1..Len(A) |->
              IF j = free[f] THEN Num(1)
              ELSE IF \E t \in 1..Len(R.pivots) : R.pivots[t] = j
              THEN QSub(Num(0),
                        R.M[CHOOSE t \in 1..Len(R.pivots) : R.pivots[t] = j][free[f]])
              ELSE Num(0)]]

\* the solution of A x = b of minimum norm: a particular solution less its
\* projection on the null space of A
MinNorm(A, b) ==
    LET x0 == Particular(A, b)
        N == NullBasis(A)
        G == [f \in 1..Len(N) |-> [g \in 1..Len(N) |-> Dot(N[f], N[g])]]
        h == [f \in 1..Len(N) |-> Dot(N[f], x0)]
        c == Particular(G, h)
    IN [j \in 1..Len(A) |->
          QSub(x0[j], QSum([f \in 1..Len(N) |-> QMul(c[f], N[f][j])]))]

\* a solution of the normal equations that is not the one of minimum norm:
\* the free unknowns are 0
normal_dot(X, y, k) ==
    LET XtX == [a \in 1..k |-> [b \in 1..k |->
                    QSum([i \in 1..Len(X) |-> QMul(X[i][a], X[i][b])])]]
        Xty == [a \in 1..k |-> QSum([i \in 1..Len(X) |-> QMul(X[i][a], y[i])])]
    IN Particular(XtX, Xty)

\* np.linalg.pinv(X) . y for an array X of n rows and k columns
pinv_dot(X, y, k) ==
    LET XtX == [a \in 1..k |-> [b \in 1..k |->
                    QSum([i \in 1..Len(X) |-> QMul(X[i][a], X[i][b])])]]
        Xty == [a \in 1..k |-> QSum([i \in 1..Len(X) |-> QMul(X[i][a], y[i])])]
    IN MinNorm(XtX, Xty)

\* a model built on no row without complaint
OLS_raises_on_nan_only(y, X) ==
    IF \E i \in 1..NRows(X) : \E c \in Columns(X) : X.rows[i][c].nan
    THEN "MissingDataError"
    ELSE "none"

\* sm.OLS(y, X): the exception raised while the model is built, "none" if
\* there is none.  np.max over the rows of an array that has no row is a
\* ValueError; a design matrix holding a NaN is a MissingDataError.  A
\* matrix that is not of full rank raises nothing.
OLS_raises(y, X) ==
    IF NRows(X) = 0 THEN "ValueError"
    ELSE IF \E i \in 1..NRows(X) : \E c \in Columns(X) : X.rows[i][c].nan
    THEN "MissingDataError"
    ELSE "none"

\* sm.OLS(y, X).fit(): params = pinv(X) . y, fittedvalues = X . params,
\* resid = y - fittedvalues, the two indexed like the rows of X.  A NaN in
\* y makes every product, and so every parameter, NaN.
OLS_fit(y, X) ==
    LET A == exog(X)
        k == Len(X.cols)
        n == NRows(X)
        params == IF \E i \in 1..n : y.values[i].nan
                  THEN [j \in 1..k |-> NaN]
                  ELSE pinv_dot(A, y.values, k)
        fitted == [i \in 1..n |-> Dot(A[i], params)]
    IN [params |-> [index |-> X.cols, values |-> params],
        fittedvalues |-> [index |-> X.index, values |-> fitted],
        resid |-> [index |-> X.index,
                   values |-> [i \in 1..n |-> QSub(y.values[i], fitted[i])]]]

\* prepare_regression_data(df, target_col, categorical_cols): the design
\* matrix X and the target y, and the exception of the model the function
\* itself builds and fits on lines 29-31 before it returns ("none" if it
\* returns)
prepare_regression_data(df, target_col, categorical_cols) ==
    LET X == add_constant(get_dummies(df, categorical_cols))
        y == Series(df, target_col)
    IN [X |-> X, y |-> y, raises |-> OLS_raises(y, X)]

\* fit_ols_model(X, y): the fitted model
fit_ols_model(X, y) == OLS_fit(y, X)

\* the diagnostics with the fitted values in the place of the residuals
get_regression_diagnostics_fitted_twice(model) ==
    [fitted_values |-> model.fittedvalues, residuals |-> model.fittedvalues]

\* get_regression_diagnostics(model): the fitted values and the residuals
\* of the model.  The three scalars of the dictionary (rsquared,
\* rsquared_adj, aic) are left out: aic is a logarithm.
get_regression_diagnostics(model) ==
    [fitted_values |-> model.fittedvalues, residuals |-> model.resid]

\* the residuals on the bounds returned with those outside them
detect_residual_outliers_inclusive(residuals) ==
    LET resid_df ==
            [cols |-> <<"Residuals">>, index |-> residuals.index,
             rows |-> [i \in 1..Len(residuals.values) |->
                         ("Residuals" :> residuals.values[i])]]
        x == Column(resid_df, "Residuals")
        Q1 == quantile(x, 1, 4)
        Q3 == quantile(x, 3, 4)
        IQR == QSub(Q3, Q1)
        lo == QSub(Q1, QMul(Rat(3, 2), IQR))
        hi == QAdd(Q3, QMul(Rat(3, 2), IQR))
    IN BoolIndex(resid_df,
                 [i \in 1..Len(x) |-> ~x[i].nan /\ ~lo.nan /\ ~hi.nan
                                       /\ (~FGt(x[i], lo) \/ ~FLt(x[i], hi))])

\* detect_residual_outliers(residuals): the rows of resid_df whose residual
\* is below Q1 - 1.5*IQR (lo) or above Q3 + 1.5*IQR (hi)
detect_residual_outliers(residuals) ==
    LET resid_df ==
            [cols |-> <<"Residuals">>, index |-> residuals.index,
             rows |-> [i \in 1..Len(residuals.values) |->
                         ("Residuals" :> residuals.values[i])]]
        x == Column(resid_df, "Residuals")
        Q1 == quantile(x, 1, 4)
        Q3 == quantile(x, 3, 4)
        IQR == QSub(Q3, Q1)
        lo == QSub(Q1, QMul(Rat(3, 2), IQR))
        hi == QAdd(Q3, QMul(Rat(3, 2), IQR))
    IN BoolIndex(resid_df,
                 [i \in 1..Len(x) |-> FLt(x[i], lo) \/ FGt(x[i], hi)])

(***************************************************************************)
(* The tables a caller can load.                                           *)
(***************************************************************************)
ValueCol == "FactValueNumeric"

\* the default index of a table built from lists: 0, 1, ..., n-1
RangeIndex(n) == [i \in 1..n |-> i - 1]

\* a one-column table holding the cells of s in the value column
ValueTable(s) ==
    [cols |-> <<ValueCol>>,
     index |-> RangeIndex(Len(s)),
     rows |-> [i \in 1..Len(s) |-> (ValueCol :> s[i])]]

\* a table with the columns A, B, C from three columns of equal length
AuditTable(a, b, c) ==
    [cols |-> <<"A", "B", "C">>,
     index |-> RangeIndex(Len(a)),
     rows |-> [i \in 1..Len(a) |-> ("A" :> a[i] @@ "B" :> b[i] @@ "C" :> c[i])]]

Repeat(v, k) == [i \in 1..k |-> v]
Nums(s) == [i \in 1..Len(s) |-> Num(s[i])]

ValueDomain == {Num(0), Num(1), Num(5), NaN}
AuditDomain == {Num(1), NaN}
PadDomain == {Num(1), Num(20)}

\* every value column of at most MaxRows rows over ValueDomain
ValueTables ==
    {ValueTable(s) : s \in UNION {[1..n -> ValueDomain] : n \in 0..MaxRows}}

\* the longer value columns, up to MaxSortedRows rows, each multiset of
\* cells once: values ascending, missing cells last
CellLeq(a, b) == b.nan \/ (~a.nan /\ a.num <= b.num)
SortedTables ==
    {ValueTable(s) :
        s \in UNION {{f \in [1..n -> ValueDomain] :
                        \A i \in 1..(n - 1) : CellLeq(f[i], f[i + 1])} :
                     n \in (MaxRows + 1)..MaxSortedRows}}

\* a long run of one value followed by two more cells
PaddedTables ==
    {ValueTable(Repeat(v, k) \o <<w1, w2>>) :
        v \in PadDomain, k \in (MaxPad - 3)..MaxPad,
        w1 \in PadDomain \cup {NaN}, w2 \in PadDomain \cup {NaN}}

\* every table of at most MaxAuditRows rows and the columns A, B, C
AuditTables ==
    UNION {{AuditTable(a, b, c) : a \in [1..n -> AuditDomain],
                                   b \in [1..n -> AuditDomain],
                                   c \in [1..n -> AuditDomain]} :
           n \in 0..MaxAuditRows}

\* the tables of tests/test_cleaning.py
sample_data == ValueTable(Nums(<<1, 2, 3, 4, 5, 20>>))
data_with_nan == ValueTable(Nums(<<1, 2, 3>>) \o <<NaN>> \o Nums(<<5, 20>>))
data_z_score_outlier == ValueTable(Nums(Repeat(1, 10) \o <<20>>))
empty_df == ValueTable(<<>>)
missing_df ==
    AuditTable(<<Num(1), NaN, Num(3)>>, <<NaN, NaN, Num(3)>>, Nums(<<4, 5, 6>>))
all_duplicates_df ==
    [cols |-> <<"A">>, index |-> RangeIndex(3), rows |-> [i \in 1..3 |-> ("A" :> Num(1))]]
no_duplicates_df ==
    [cols |-> <<"A">>, index |-> RangeIndex(3), rows |-> [i \in 1..3 |-> ("A" :> Num(i))]]
TestTables ==
    {sample_data, data_with_nan, data_z_score_outlier, empty_df, missing_df,
     all_duplicates_df, no_duplicates_df}

\* value columns that hold text instead of numbers
TextTables ==
    {ValueTable(<<Str("Cities")>>), ValueTable(<<Str("Rural"), Str("Cities")>>)}

\* tables with the columns of the PM2.5 data set, of at most MaxPMRows rows
PMRow(period, region, dim1, location, value) ==
    ("Period" :> Num(period) @@ "ParentLocation" :> Str(region)
     @@ "Dim1" :> Str(dim1) @@ "Location" :> Str(location)
     @@ ValueCol :> Num(value))
\* the rows a table is built from; the last two lack the settlement type
\* and the value
PMRowList ==
    <<PMRow(2010, "Europe", "Cities", "Armenia", 5),
      PMRow(2012, "Europe", "Rural", "Armenia", 1),
      PMRow(2012, "Africa", "Rural", "Kenya", 5),
      PMRow(2015, "Africa", "Cities", "Kenya", 0),
      [PMRow(2012, "Europe", "Rural", "Armenia", 1) EXCEPT !["Dim1"] = NaN],
      [PMRow(2010, "Africa", "Cities", "Kenya", 0) EXCEPT ![ValueCol] = NaN]>>
PMRowDomain == Range(PMRowList)
PMTable(rows) ==
    [cols |-> <<"Period", "ParentLocation", "Dim1", "Location", ValueCol>>,
     index |-> RangeIndex(Len(rows)), rows |-> rows]

\* every table of at most MaxPMRows rows, and the longer tables, up to
\* MaxPMSortedRows rows, each multiset of rows once
PMTables ==
    {PMTable(rows) : rows \in UNION {[1..n -> PMRowDomain] : n \in 0..MaxPMRows}}
    \cup
    {PMTable([i \in 1..Len(f) |-> PMRowList[f[i]]]) :
        f \in UNION {{g \in [1..n -> 1..Len(PMRowList)] :
                        \A i \in 1..(n - 1) : g[i] <= g[i + 1]} :
                     n \in (MaxPMRows + 1)..MaxPMSortedRows}}

\* a table of one settlement type in which one value stands out
regression_outlier_df ==
    PMTable([i \in 1..6 |->
                IF i = 4 THEN PMRow(2010, "Europe", "Cities", "Armenia", 5)
                ELSE PMRow(2015, "Africa", "Cities", "Kenya", 0)])

\* the filters a user can select
YearRanges == {<<2010, 2012>>, <<2012, 2015>>}
RegionLists == SUBSET {"Africa", "Europe"}
Dim1Lists == SUBSET {"Cities", "Rural"}

\* value columns on which a value meets an IQR bound exactly
upper_edge_df == ValueTable(Nums(<<0, 0, 1, 5>>))
lower_edge_df == ValueTable(Nums(<<1, 5, 6, 6>>))
both_edges_df == ValueTable(Nums(<<0, 4, 5, 6, 9>>))
EdgeTables == {upper_edge_df, lower_edge_df, both_edges_df}

\* value columns with four, five and six values that the IQR rule flags
four_outliers_df == ValueTable(Nums(Repeat(1, 13) \o Repeat(20, 4)))
five_outliers_df == ValueTable(Nums(Repeat(1, 16) \o Repeat(20, 5)))
six_outliers_df == ValueTable(Nums(Repeat(1, 19) \o Repeat(20, 6)))
OutlierTables == {four_outliers_df, five_outliers_df, six_outliers_df}

Inputs ==
    OutlierTables \cup ValueTables \cup SortedTables \cup PaddedTables \cup AuditTables
    \cup TestTables \cup EdgeTables \cup PMTables \cup TextTables
    \cup {regression_outlier_df}

(***************************************************************************)
(* The caller.  tabs[i] = [t, by, from]: the table object, the operation   *)
(* that returned it and the index of the table it was computed from.       *)
(* call = [op, args, ret, val, err]: ret the index in tabs of the table    *)
(* returned (0 if none), val a result that is not a table.                 *)
(***************************************************************************)
Heap == [i \in 1..Len(tabs) |-> tabs[i].t]
NoVal == <<>>

\* load_data(): the table read from the CSV file is returned as read, no
\* column is added to it (the lines that add 'Year' are inside a string
\* that follows the return)
load_data(csv) == csv

Init ==
    /\ \E csv \in Inputs :
          tabs = <<[t |-> load_data(csv), by |-> "load_data", from |-> 0]>>
    /\ call = [op |-> "none", args |-> <<>>, ret |-> 0, val |-> NoVal, err |-> "none"]


Returned(op, i) == [t |-> {}, by |-> op, from |-> i]

\* The caller passes on its most recent table: df = f(df).
Latest(i) == i = Len(tabs)

\* The caller inspects its tables (calls that return no table) once they
\* are built: after load_data or after a call that returned a table.
Built == call.op = "none" \/ call.ret # 0

\* The caller has loaded its table and made no call yet.
Loaded == call.op = "none"

\* a column of numbers (float64, missing cells included), not of text
IsNumeric(df, c) == \A i \in 1..NRows(df) : "num" \in DOMAIN df.rows[i][c]

\* the call made: the table returned is tabs[ret], the error err is raised
\* to the caller
Raised(op, i, err) ==
    [op |-> op, args |-> <<i>>, ret |-> 0, val |-> NoVal, err |-> err]

\* detect_outliers that hands back the copy when it cannot compute the flags
DetectOutliersLenient(i) ==
    /\ Built
    /\ Latest(i)
    /\ Len(tabs) < MaxTabs
    /\ LET c == IF HasColumn(tabs[i].t, ValueCol) /\ IsNumeric(tabs[i].t, ValueCol)
                THEN detect_outliers(Heap, i, ValueCol)
                ELSE DfCopy(Heap, i)
       IN /\ tabs' = [k \in 1..Len(tabs) |-> [tabs[k] EXCEPT !.t = c.h[k]]]
                     \o <<[Returned("detect_outliers", i) EXCEPT !.t = c.h[c.r]]>>
          /\ call' = [op |-> "detect_outliers", args |-> <<i>>,
                      ret |-> Len(tabs) + 1, val |-> NoVal, err |-> "none"]

\* flagged = detect_outliers(tabs[i]).  df[target_col] on a table without
\* the value column is a KeyError; the quantile of a column of text is a
\* TypeError.  Both are raised after df.copy(), the copy being dropped.
DetectOutliers(i) ==
    /\ Built
    /\ Latest(i)
    /\ Len(tabs) < MaxTabs
    /\ IF ~HasColumn(tabs[i].t, ValueCol)
       THEN /\ call' = Raised("detect_outliers", i, "KeyError")
            /\ UNCHANGED tabs
       ELSE IF ~IsNumeric(tabs[i].t, ValueCol)
       THEN /\ call' = Raised("detect_outliers", i, "TypeError")
            /\ UNCHANGED tabs
       ELSE LET c == detect_outliers(Heap, i, ValueCol)
            IN /\ tabs' = [k \in 1..Len(tabs) |-> [tabs[k] EXCEPT !.t = c.h[k]]]
                          \o <<[Returned("detect_outliers", i) EXCEPT !.t = c.h[c.r]]>>
               /\ call' = [op |-> "detect_outliers", args |-> <<i>>,
                           ret |-> Len(tabs) + 1, val |-> NoVal, err |-> "none"]

\* the flagged rows taken for the cleaned table
drop_outliers_inverted(df) ==
    BoolIndex(df, [i \in 1..NRows(df) |-> FEq(df.rows[i]["outlier_IQR"], Num(1))])

\* the rows the Z-score method leaves, taken for the cleaned table
drop_outliers_by_z(df) ==
    BoolIndex(df, [i \in 1..NRows(df) |-> FEq(df.rows[i]["outlier_z"], Num(0))])

\* cleaned_df = df[df['outlier_IQR'] == 0]
drop_outliers(df) ==
    BoolIndex(df, [i \in 1..NRows(df) |-> FEq(df.rows[i]["outlier_IQR"], Num(0))])

DropOutliers(i) ==
    /\ Built
    /\ Latest(i)
    /\ Len(tabs) < MaxTabs
    /\ HasColumn(tabs[i].t, "outlier_IQR")
    /\ tabs' = Append(tabs, [Returned("drop_outliers", i) EXCEPT
                                !.t = drop_outliers(tabs[i].t)])
    /\ call' = [op |-> "drop_outliers", args |-> <<i>>,
                ret |-> Len(tabs) + 1, val |-> NoVal, err |-> "none"]

GetMissingData(i) ==
    /\ Built
    /\ call' = [op |-> "get_missing_data", args |-> <<i>>, ret |-> 0,
                val |-> get_missing_data(tabs[i].t), err |-> "none"]
    /\ UNCHANGED tabs

CountDuplicates(i) ==
    /\ Built
    /\ call' = [op |-> "count_duplicates", args |-> <<i>>, ret |-> 0,
                val |-> count_duplicates(tabs[i].t), err |-> "none"]
    /\ UNCHANGED tabs

\* generate_cleaning_summary(tabs[i], tabs[j]); original_df['outlier_IQR']
\* on a table without that column is a KeyError
GenerateCleaningSummary(i, j) ==
    /\ Built
    /\ IF HasColumn(tabs[i].t, "outlier_IQR")
       THEN call' = [op |-> "generate_cleaning_summary", args |-> <<i, j>>,
                     ret |-> 0,
                     val |-> generate_cleaning_summary(tabs[i].t, tabs[j].t),
                     err |-> "none"]
       ELSE call' = [op |-> "generate_cleaning_summary", args |-> <<i, j>>,
                     ret |-> 0, val |-> NoVal, err |-> "KeyError"]
    /\ UNCHANGED tabs

Failed(op, i) ==
    [op |-> op, args |-> <<i>>, ret |-> 0, val |-> NoVal, err |-> "KeyError"]

\* filtered_df = apply_filters(df, years, regions, dim1) on the loaded table
\* (Home.py); a missing filter column is a KeyError
ApplyFilters(i, years, regions, dim1) ==
    /\ Loaded
    /\ tabs[i].by = "load_data"
    /\ IF {"Period", "ParentLocation", "Dim1"} \subseteq Columns(tabs[i].t)
       THEN call' = [op |-> "apply_filters",
                     args |-> <<i, years, regions, dim1>>, ret |-> 0,
                     val |-> apply_filters(tabs[i].t, years, regions, dim1),
                     err |-> "none"]
       ELSE call' = Failed("apply_filters", i)
    /\ UNCHANGED tabs

\* the columns of pages/3_Regression_Analysis.py, and the lists of
\* categorical columns a caller passes
target_col == ValueCol
categorical_cols == <<"Dim1", "Location">>
CategoricalLists == {categorical_cols, <<"Dim1">>}

\* X, y = prepare_regression_data(df, target_col, cats) on the loaded
\* table.  A missing column is a KeyError; the exception of the model the
\* function fits is raised to the caller in the place of X, y.
PrepareRegressionData(i, cats) ==
    /\ Loaded
    /\ tabs[i].by = "load_data"
    /\ IF ~(Range(cats) \cup {target_col} \subseteq Columns(tabs[i].t))
       THEN call' = [Raised("prepare_regression_data", i, "KeyError")
                        EXCEPT !.args = <<i, cats>>]
       ELSE LET r == prepare_regression_data(tabs[i].t, target_col, cats)
            IN IF r.raises # "none"
               THEN call' = [Raised("prepare_regression_data", i, r.raises)
                                EXCEPT !.args = <<i, cats>>]
               ELSE call' = [op |-> "prepare_regression_data",
                             args |-> <<i, cats>>, ret |-> 0,
                             val |-> [X |-> r.X, y |-> r.y], err |-> "none"]
    /\ UNCHANGED tabs

\* model = fit_ols_model(X, y), X and y as prepare_regression_data
\* returned them
FitOlsModel ==
    /\ call.op = "prepare_regression_data" /\ call.err = "none"
    /\ IF OLS_raises(call.val.y, call.val.X) # "none"
       THEN call' = [call EXCEPT !.op = "fit_ols_model", !.val = NoVal,
                                 !.err = OLS_raises(call.val.y, call.val.X)]
       ELSE call' = [call EXCEPT !.op = "fit_ols_model",
                                 !.val = [X |-> call.val.X, y |-> call.val.y,
                                          model |-> fit_ols_model(call.val.X,
                                                                  call.val.y)]]
    /\ UNCHANGED tabs

\* diagnostics = get_regression_diagnostics(model)
GetRegressionDiagnostics ==
    /\ call.op = "fit_ols_model" /\ call.err = "none"
    /\ call' = [call EXCEPT !.op = "get_regression_diagnostics",
                            !.val = [X |-> call.val.X, y |-> call.val.y,
                                     model |-> call.val.model,
                                     diagnostics |->
                                         get_regression_diagnostics(call.val.model)]]
    /\ UNCHANGED tabs

\* detect_residual_outliers(residuals): the residuals are those of the
\* diagnostics of a model fitted on tabs[i], or the value column of
\* tabs[i] taken as a sequence of residuals
DetectResidualOutliers(i) ==
    /\ \/ call.op = "get_regression_diagnostics" /\ i = call.args[1]
       \/ /\ Built
          /\ HasColumn(tabs[i].t, ValueCol)
          /\ IsNumeric(tabs[i].t, ValueCol)
    /\ LET residuals == IF call.op = "get_regression_diagnostics"
                        THEN call.val.diagnostics.residuals
                        ELSE Series(tabs[i].t, ValueCol)
       IN call' = [op |-> "detect_residual_outliers", args |-> <<i, residuals>>,
                   ret |-> 0, val |-> detect_residual_outliers(residuals),
                   err |-> "none"]
    /\ UNCHANGED tabs

\* st.dataframe(df[df['outlier_IQR'] == 1].sample(5)) with the box "Show
\* sample of removed outliers" ticked, after the summary of the page was
\* shown; the ValueError of sample ends the run of the page
ShowSampleOfRemovedOutliers ==
    /\ call.op = "generate_cleaning_summary" /\ call.err = "none"
    /\ tabs[call.args[1]].by = "detect_outliers"
    /\ tabs[call.args[2]].by = "drop_outliers"
    /\ tabs[call.args[2]].from = call.args[1]
    /\ LET df == tabs[call.args[1]].t
           removed == BoolIndex(df, [i \in 1..NRows(df) |->
                                       FEq(df.rows[i]["outlier_IQR"], Num(1))])
           s == sample(removed, 5)
       IN IF s.raises # "none"
          THEN call' = Raised("sample", call.args[1], s.raises)
          ELSE \E shown \in s.results :
                  call' = [op |-> "sample", args |-> <<call.args[1]>>,
                           ret |-> 0, val |-> shown, err |-> "none"]
    /\ UNCHANGED tabs

\* the Urban PM2.5 Overview page: df = load_data(), then
\* latest_year = df['Year'].max(); a table without the column is a KeyError
UrbanPM25Overview(i) ==
    /\ Loaded
    /\ tabs[i].by = "load_data"
    /\ IF ~HasColumn(tabs[i].t, "Year")
       THEN call' = Raised("urban_pm25_overview", i, "KeyError")
       ELSE LET Year == {v \in Range(Column(tabs[i].t, "Year")) : ~v.nan}
                latest_year == IF Year = {} THEN NaN
                               ELSE CHOOSE m \in Year : \A v \in Year : ~FLt(m, v)
            IN call' = [op |-> "urban_pm25_overview", args |-> <<i>>, ret |-> 0,
                        val |-> [latest_year |-> latest_year], err |-> "none"]
    /\ UNCHANGED tabs

Next ==
    \/ \E i \in 1..Len(tabs) : UrbanPM25Overview(i)
    \/ \E i \in 1..Len(tabs) : DetectOutliers(i)
    \/ \E i \in 1..Len(tabs) : DropOutliers(i)
    \/ \E i \in 1..Len(tabs) : GetMissingData(i)
    \/ \E i \in 1..Len(tabs) : CountDuplicates(i)
    \/ \E i, j \in 1..Len(tabs) : GenerateCleaningSummary(i, j)
    \/ \E i \in 1..Len(tabs), years \in YearRanges,
          regions \in RegionLists, dim1 \in Dim1Lists :
              ApplyFilters(i, years, regions, dim1)
    \/ \E i \in 1..Len(tabs), cats \in CategoricalLists :
          PrepareRegressionData(i, cats)
    \/ FitOlsModel
    \/ GetRegressionDiagnostics
    \/ \E i \in 1..Len(tabs) : DetectResidualOutliers(i)
    \/ ShowSampleOfRemovedOutliers

Spec == Init /\ [][Next]_vars

(***************************************************************************)
(* The outlier section of the report page run again on its own cleaned    *)
(* table: df = detect_outliers(df), cleaned_df = df[df['outlier_IQR'] ==  *)
(* 0], generate_cleaning_summary(df, cleaned_df), then df = cleaned_df.    *)
(***************************************************************************)
\* a value column in which removing one outlier uncovers another
cascade_df == ValueTable(Nums(<<1, 2, 3, 4, 5, 6, 7, 8, 14, 100>>))

\* the tables with a value column of numbers
RepeatInputs ==
    ValueTables \cup SortedTables \cup EdgeTables
    \cup {sample_data, data_with_nan, cascade_df}

InitRepeat ==
    /\ \E csv \in RepeatInputs :
          tabs = <<[t |-> load_data(csv), by |-> "load_data", from |-> 0]>>
    /\ call = [op |-> "none", args |-> <<>>, ret |-> 0, val |-> NoVal, err |-> "none"]

\* one run of the section on the caller's latest table: the flagged table
\* and the cleaned table are added, the summary of the two is shown
OutlierReport ==
    /\ Len(tabs) < 2 * MaxPasses + 1
    /\ LET i == Len(tabs)
           c == detect_outliers(Heap, i, ValueCol)
           df == c.h[c.r]
           cleaned_df == drop_outliers(df)
       IN /\ tabs' = [k \in 1..Len(tabs) |-> [tabs[k] EXCEPT !.t = c.h[k]]]
                     \o <<[Returned("detect_outliers", i) EXCEPT !.t = df],
                          [Returned("drop_outliers", i + 1) EXCEPT !.t = cleaned_df]>>
          /\ call' = [op |-> "generate_cleaning_summary",
                      args |-> <<i + 1, i + 2>>, ret |-> 0,
                      val |-> generate_cleaning_summary(df, cleaned_df),
                      err |-> "none"]

NextRepeat == OutlierReport

SpecRepeat == InitRepeat /\ [][NextRepeat]_vars


(***************************************************************************)
(* The claims.  What follows states the expected results in terms of the   *)
(* argument and the result of the last call.                               *)
(***************************************************************************)
Arg == tabs[call.args[1]].t
Ret == tabs[call.ret].t
Detected == call.op = "detect_outliers" /\ call.err = "none"
FlagColumns == {"outlier_IQR", "z_score", "outlier_z"}

\* the values of a column without missing entries, as integers
Values(df) == [i \in 1..NRows(df) |-> df.rows[i][ValueCol].num]
NoMissing(df) == \A i \in 1..NRows(df) : ~df.rows[i][ValueCol].nan
SomeMissing(df) == \E i \in 1..NRows(df) : df.rows[i][ValueCol].nan

\* the k-th order statistic (k = 0 the smallest) of a sequence of integers
OrderStat(v, k) ==
    CHOOSE a \in Range(v) :
        /\ Cardinality({i \in DOMAIN v : v[i] < a}) <= k
        /\ Cardinality({i \in DOMAIN v : v[i] <= a}) > k

\* four times the percentile at q = q4/4 of v, by linear interpolation
\* between the order statistics around position q*(n-1)
Percentile4(v, q4) ==
    LET p == q4 * (Len(v) - 1)
        a == OrderStat(v, p \div 4)
        b == OrderStat(v, IF p % 4 = 0 THEN p \div 4 ELSE p \div 4 + 1)
    IN 4 * a + (p % 4) * (b - a)

\* eight times Q1 - 1.5*IQR and eight times Q3 + 1.5*IQR
Lower8(v) == 2 * Percentile4(v, 1) - 3 * (Percentile4(v, 3) - Percentile4(v, 1))
Upper8(v) == 2 * Percentile4(v, 3) + 3 * (Percentile4(v, 3) - Percentile4(v, 1))

Flag(b) == IF b THEN Num(1) ELSE Num(0)

\* C1: on a value column without missing entries, outlier_IQR is 1 exactly
\* on the rows whose value is strictly below Q1 - 1.5*IQR or strictly above
\* Q3 + 1.5*IQR (quartiles of the whole column by linear interpolation) and
\* 0 elsewhere; [1,2,3,4,5,20] gives [0,0,0,0,0,1].
C1_IqrFlags ==
    (Detected /\ NoMissing(Arg)) =>
        LET v == Values(Arg) IN
        /\ \A i \in 1..NRows(Arg) :
              Ret.rows[i]["outlier_IQR"] =
                  Flag(8 * v[i] < Lower8(v) \/ 8 * v[i] > Upper8(v))
        /\ Arg = sample_data =>
              Column(Ret, "outlier_IQR") = Nums(<<0, 0, 0, 0, 0, 1>>)

\* a column with a flagged row and an unflagged row equal to the upper bound
C1_Witness ==
    /\ Detected /\ NoMissing(Arg)
    /\ \E i \in 1..NRows(Arg) : Ret.rows[i]["outlier_IQR"] = Num(1)
    /\ \E i \in 1..NRows(Arg) :
          /\ 8 * Values(Arg)[i] = Upper8(Values(Arg))
          /\ Ret.rows[i]["outlier_IQR"] = Num(0)

\* the sum and the sum of squares of a sequence of integers
Sum(v) == SumSeq(v)
SumSq(v) == SumSeq([i \in DOMAIN v |-> v[i] * v[i]])

\* |x - mean| / std > 3 for the i-th value of v, std the population standard
\* deviation: with n values of sum S and sum of squares SS,
\* (n*x - S)^2 > 9 * (n*SS - S^2)
ZAbove3(v, i) ==
    LET n == Len(v)
        d == n * v[i] - Sum(v)
    IN d * d > 9 * (n * SumSq(v) - Sum(v) * Sum(v))

\* C2: on a value column without missing entries, outlier_z is 1 exactly on
\* the rows with |x - mean| / std > 3 and 0 elsewhere; in [1]*10 + [20] only
\* the last row is flagged.
C2_ZFlags ==
    (Detected /\ NoMissing(Arg)) =>
        LET v == Values(Arg) IN
        /\ \A i \in 1..NRows(Arg) :
              Ret.rows[i]["outlier_z"] = Flag(ZAbove3(v, i))
        /\ Arg = data_z_score_outlier =>
              Column(Ret, "outlier_z") = Nums(Repeat(0, 10) \o <<1>>)

\* a column whose one low value is more than 3 standard deviations below
C2_Witness ==
    /\ Detected /\ NoMissing(Arg)
    /\ \E i \in 1..NRows(Arg) :
          /\ Ret.rows[i]["outlier_z"] = Num(1)
          /\ \A j \in 1..NRows(Arg) : Values(Arg)[i] <= Values(Arg)[j]

\* C3: a row whose value is missing gets outlier_IQR = 0 and outlier_z = 0.
C3_NaNNeverFlagged ==
    Detected =>
        \A i \in 1..NRows(Arg) :
            Arg.rows[i][ValueCol].nan =>
                /\ Ret.rows[i]["outlier_IQR"] = Num(0)
                /\ Ret.rows[i]["outlier_z"] = Num(0)

\* a column with a missing row and, next to it, a row the IQR rule flags
C3_Witness ==
    /\ Detected
    /\ \E i \in 1..NRows(Arg) : Arg.rows[i][ValueCol].nan
    /\ \E i \in 1..NRows(Arg) : Ret.rows[i]["outlier_IQR"] = Num(1)

\* C4 as stated: on a zero-row table detect_outliers does not raise and
\* returns a zero-row table whose columns are exactly outlier_IQR, outlier_z
\* and z_score.
C4_ExactlyFlagColumns ==
    (call.op = "detect_outliers" /\ HasColumn(Arg, ValueCol) /\ NRows(Arg) = 0) =>
        /\ call.err = "none"
        /\ call.ret # 0
        /\ NRows(Ret) = 0
        /\ Columns(Ret) = FlagColumns

\* C4, amended: on a zero-row table detect_outliers does not raise and
\* returns a zero-row table that holds the columns of the input and, besides
\* them, exactly outlier_IQR, outlier_z and z_score.
C4_EmptyTable ==
    (call.op = "detect_outliers" /\ HasColumn(Arg, ValueCol) /\ NRows(Arg) = 0) =>
        /\ call.err = "none"
        /\ call.ret # 0
        /\ NRows(Ret) = 0
        /\ Columns(Ret) = Columns(Arg) \cup FlagColumns

\* the empty table of the test, returned with four columns and no row
C4_Witness ==
    /\ Detected
    /\ Arg = empty_df
    /\ Ret = [cols |-> <<ValueCol, "outlier_IQR", "z_score", "outlier_z">>,
              index |-> <<>>, rows |-> <<>>]

MissingCount(df, c) == Cardinality({i \in 1..NRows(df) : df.rows[i][c].nan})

\* C5: get_missing_data returns one entry per column with a missing value,
\* holding that column's missing count, no entry for a column without one,
\* and the entries in non-increasing order of count; the table of the test
\* gives B:2 then A:1.
C5_MissingData ==
    call.op = "get_missing_data" =>
        LET m == call.val IN
        /\ {m[k].index : k \in 1..Len(m)} =
              {c \in Columns(Arg) : MissingCount(Arg, c) > 0}
        /\ \A k, l \in 1..Len(m) : m[k].index = m[l].index => k = l
        /\ \A k \in 1..Len(m) : m[k].value = MissingCount(Arg, m[k].index)
        /\ \A k \in 1..(Len(m) - 1) : m[k].value >= m[k + 1].value
        /\ Arg = missing_df =>
              m = <<[index |-> "B", value |-> 2], [index |-> "A", value |-> 1]>>

\* a report of two columns with different counts, the later column first
C5_Witness ==
    /\ call.op = "get_missing_data"
    /\ Arg = missing_df
    /\ Len(call.val) = 2
    /\ call.val[1].index = "B" /\ call.val[1].value > call.val[2].value

\* C6: count_duplicates returns the row count minus the number of distinct
\* rows: 0 when all rows differ, n-1 when all n rows are equal.
C6_Duplicates ==
    call.op = "count_duplicates" =>
        /\ call.val = NRows(Arg) - Cardinality(Range(Arg.rows))
        /\ Arg = all_duplicates_df => call.val = 2
        /\ Arg = no_duplicates_df => call.val = 0

\* three equal rows counted as two duplicates
C6_Witness ==
    /\ call.op = "count_duplicates"
    /\ Arg = all_duplicates_df
    /\ call.val = 2

Before == tabs[call.args[1]].t
After == tabs[call.args[2]].t
FlaggedRows(df) ==
    {i \in 1..NRows(df) : df.rows[i]["outlier_IQR"] = Num(1)}

\* C7: for a before table with an outlier_IQR column the summary has the
\* three rows Total Rows, Total Columns, Total Outliers; Before = (rows,
\* columns, sum of outlier_IQR) of before, After = (rows, columns) of after
\* and 0, whatever after holds.
C7_Summary ==
    (call.op = "generate_cleaning_summary" /\ HasColumn(Before, "outlier_IQR")) =>
        LET m == call.val IN
        /\ call.err = "none"
        /\ Len(m) = 3
        /\ m[1].Metric = "Total Rows"
        /\ m[1].Before = NRows(Before) /\ m[1].After = NRows(After)
        /\ m[2].Metric = "Total Columns"
        /\ m[2].Before = Cardinality(Columns(Before))
        /\ m[2].After = Cardinality(Columns(After))
        /\ m[3].Metric = "Total Outliers"
        /\ m[3].Before = Cardinality(FlaggedRows(Before))
        /\ m[3].After = 0

\* a summary whose after table itself holds a flagged row
C7_Witness ==
    /\ call.op = "generate_cleaning_summary" /\ call.err = "none"
    /\ HasColumn(After, "outlier_IQR") /\ FlaggedRows(After) # {}
    /\ call.val[3].Before > 0 /\ call.val[3].After = 0

\* the two flags of every row, and a table reduced to its value column
FlagsOf(df) ==
    [i \in 1..NRows(df) |-> <<df.rows[i]["outlier_IQR"], df.rows[i]["outlier_z"]>>]
ValueOnly(df) == ValueTable(Column(df, ValueCol))
Fresh(df) == LET c == detect_outliers(<<df>>, 1, ValueCol) IN c.h[c.r]

\* C8: the flags detect_outliers returns depend on the value column of its
\* argument only: flag columns already there are overwritten, a second call
\* on the result of a first repeats its flags, and a call on a table from
\* which rows were removed gives the flags of the remaining value column.
C8_FlagsFromValuesOnly ==
    Detected =>
        /\ FlagsOf(Ret) = FlagsOf(Fresh(ValueOnly(Arg)))
        /\ tabs[call.args[1]].by = "detect_outliers" => FlagsOf(Ret) = FlagsOf(Arg)

\* a call on a table whose flagged rows were removed, finding a new outlier
\* among rows that carried outlier_IQR = 0
C8_Witness ==
    /\ Detected
    /\ tabs[call.args[1]].by = "drop_outliers"
    /\ \E i \in 1..NRows(Arg) :
          /\ Arg.rows[i]["outlier_IQR"] = Num(0)
          /\ Ret.rows[i]["outlier_IQR"] = Num(1)

\* C9: no call changes a table the caller holds: after any step every table
\* object held before has the columns, index, rows and values it had; in
\* particular detect_outliers writes its three columns into a copy.
C9_InputsUnchanged ==
    [][/\ Len(tabs') >= Len(tabs)
       /\ \A i \in 1..Len(tabs) : tabs'[i].t = tabs[i].t]_vars

\* detect_outliers has returned a table with the three columns twice over,
\* and the loaded table still has none of them
C9_Witness ==
    /\ Detected
    /\ Len(tabs) >= 3
    /\ tabs[1].by = "load_data" /\ tabs[2].by = "detect_outliers"
    /\ Columns(tabs[1].t) \cap FlagColumns = {}
    /\ FlagColumns \subseteq Columns(tabs[2].t)
    /\ NRows(tabs[1].t) > 0

\* the flag columns the argument does not have yet, in the order written
AddedColumns(df) ==
    SelectSeq(<<"outlier_IQR", "z_score", "outlier_z">>,
              LAMBDA c : ~HasColumn(df, c))

Required(c) ==
    CASE c.op = "detect_outliers" -> {ValueCol}
      [] c.op = "generate_cleaning_summary" -> {"outlier_IQR"}
      [] c.op = "prepare_regression_data" -> {target_col} \cup Range(c.args[2])
      [] c.op = "apply_filters" -> {"Period", "ParentLocation", "Dim1"}
      [] OTHER -> {}

\* the call ended with the error err: nothing returned, no table changed
EndsWith(err) ==
    /\ call'.err = err
    /\ call'.ret = 0
    /\ call'.val = NoVal
    /\ tabs' = tabs

\* C11: a call of detect_outliers, generate_cleaning_summary,
\* prepare_regression_data or apply_filters on a table that lacks a column
\* the operation reads ends with a KeyError raised to the caller, and
\* detect_outliers on a value column of text with a TypeError; in both cases
\* no table and no partial result is returned and every table the caller
\* holds is as it was.
C11_ErrorsSurface ==
    [][LET df == tabs[call'.args[1]].t IN
       /\ (call' # call /\ ~(Required(call') \subseteq Columns(df)))
              => EndsWith("KeyError")
       /\ (call' # call /\ call'.op = "detect_outliers"
              /\ HasColumn(df, ValueCol) /\ ~IsNumeric(df, ValueCol))
              => EndsWith("TypeError")]_vars

\* detect_outliers has raised on a loaded table with rows but without the
\* value column, and the caller holds that table only
C11_Witness ==
    /\ call.op = "detect_outliers" /\ call.err = "KeyError"
    /\ call.ret = 0 /\ call.val = NoVal
    /\ NRows(Arg) > 0 /\ ~HasColumn(Arg, ValueCol)
    /\ Len(tabs) = 1

\* C12: on a value column without missing entries whose values are not all
\* equal, z_score holds on every row the raw z-score (x - mean) / std of the
\* row's value: negative below the column mean, positive above it.  With n
\* values of sum S and sum of squares SS that is the number of sign
\* Sign(n*x - S) and of square (n*x - S)^2 / (n*SS - S^2).
C12_RawZScore ==
    (Detected /\ NoMissing(Arg)) =>
        LET v == Values(Arg)
            n == Len(v)
            V == n * SumSq(v) - Sum(v) * Sum(v)
        IN V # 0 =>
              \A i \in 1..n :
                  LET z == Ret.rows[i]["z_score"]
                      d == n * v[i] - Sum(v)
                  IN /\ ~z.nan
                     /\ z.sgn = Sign(d)
                     /\ z.sqnum * V = d * d * z.sqden

\* the last call is a prepare_regression_data that returned X, y
Prepared == call.op = "prepare_regression_data" /\ call.err = "none"

\* the distinct levels of a categorical column, its indicator columns in X
\* and the level that has none
LevelSet(df, c) == {df.rows[i][c].str : i \in {j \in 1..NRows(df) : ~df.rows[j][c].nan}}
Indicator(c, l) == c \o "_" \o l
Indicators(df, X, c) == {n \in Columns(X) : \E l \in LevelSet(df, c) : n = Indicator(c, l)}
ReferenceLevels(df, X, c) == {l \in LevelSet(df, c) : ~HasColumn(X, Indicator(c, l))}

\* what C13 says of X and y, but for the rows that are all zeros
DesignShape(df, cats, X, y) ==
    /\ NRows(X) = NRows(df) /\ X.index = df.index
    /\ X.cols[1] = "const"
    /\ \A i \in 1..NRows(X) : X.rows[i]["const"] = Num(1)
    /\ Columns(X) = {"const"} \cup UNION {Indicators(df, X, c) : c \in Range(cats)}
    /\ Len(X.cols) = Cardinality(Columns(X))
    /\ \A c \in Range(cats) :
          /\ Cardinality(Indicators(df, X, c)) = Cardinality(LevelSet(df, c)) - 1
          /\ Cardinality(ReferenceLevels(df, X, c)) = 1
          /\ \A i \in 1..NRows(X) :
                /\ \A n \in Indicators(df, X, c) : X.rows[i][n] \in {Num(0), Num(1)}
                /\ Cardinality({n \in Indicators(df, X, c) : X.rows[i][n] = Num(1)}) <= 1
                /\ \A l \in LevelSet(df, c) \ ReferenceLevels(df, X, c) :
                      X.rows[i][Indicator(c, l)] = Num(1) <=> df.rows[i][c] = Str(l)
    /\ y.index = df.index
    /\ Len(y.values) = NRows(df)
    /\ \A i \in 1..NRows(df) : y.values[i] = df.rows[i][target_col]

AllZeros(df, X, c, i) == \A n \in Indicators(df, X, c) : X.rows[i][n] = Num(0)
HoldsReference(df, X, c, i) ==
    ~df.rows[i][c].nan /\ df.rows[i][c].str \in ReferenceLevels(df, X, c)

\* C13 as stated: the design matrix has one row per input row, a first
\* column const of ones and, per categorical column of k levels, k-1
\* indicator columns of 0/1 with at most one 1 in a row; a row is all zeros
\* there iff it holds the reference level; y holds the target of every row.
C13_RowsAllZeroIffReference ==
    Prepared =>
        /\ DesignShape(Arg, call.args[2], call.val.X, call.val.y)
        /\ \A c \in Range(call.args[2]) : \A i \in 1..NRows(Arg) :
              AllZeros(Arg, call.val.X, c, i) <=> HoldsReference(Arg, call.val.X, c, i)

\* C13, amended: as stated, but a row is all zeros in the indicators of a
\* categorical column iff it holds the reference level or has no value in
\* that column.
C13_DesignMatrix ==
    Prepared =>
        /\ DesignShape(Arg, call.args[2], call.val.X, call.val.y)
        /\ \A c \in Range(call.args[2]) : \A i \in 1..NRows(Arg) :
              AllZeros(Arg, call.val.X, c, i) <=>
                  (Arg.rows[i][c].nan \/ HoldsReference(Arg, call.val.X, c, i))

\* a matrix of three rows for two categorical columns of two levels each,
\* one row without a settlement type
C13_Witness ==
    /\ Prepared
    /\ call.args[2] = <<"Dim1", "Location">>
    /\ NRows(Arg) = 3
    /\ call.val.X.cols = <<"const", "Dim1_Rural", "Location_Kenya">>
    /\ \E i \in 1..3 : Arg.rows[i]["Dim1"].nan

\* the level of the first row of the table that has a value in column c
FirstObserved(df, c) ==
    LET seen == {i \in 1..NRows(df) : ~df.rows[i][c].nan}
    IN df.rows[CHOOSE i \in seen : \A j \in seen : i <= j][c].str

\* the level of column c that comes first in the order of the strings
FirstSorted(df, c) ==
    LevelOrder[CHOOSE k \in 1..Len(LevelOrder) :
                  /\ LevelOrder[k] \in LevelSet(df, c)
                  /\ \A j \in 1..(k - 1) : LevelOrder[j] \notin LevelSet(df, c)]

\* C14 as stated: the level without an indicator column is, for every
\* categorical column, the level of the first row that has a value.
C14_ReferenceIsFirstObserved ==
    Prepared =>
        \A c \in Range(call.args[2]) :
            ReferenceLevels(Arg, call.val.X, c) = {FirstObserved(Arg, c)}

\* C14, amended: the level without an indicator column is, for every
\* categorical column, the first of its levels in sorted (lexicographic)
\* order, whatever the order of the rows.
C14_ReferenceIsFirstSorted ==
    Prepared =>
        \A c \in Range(call.args[2]) :
            ReferenceLevels(Arg, call.val.X, c) = {FirstSorted(Arg, c)}

\* a table whose first row holds Rural, and Cities is the level dropped
C14_Witness ==
    /\ Prepared
    /\ FirstObserved(Arg, "Dim1") = "Rural"
    /\ ReferenceLevels(Arg, call.val.X, "Dim1") = {"Cities"}
    /\ HasColumn(call.val.X, "Dim1_Rural")

\* the last call is a fit_ols_model; its design matrix, target and model
FitCalled == call.op = "fit_ols_model"
Fitted == FitCalled /\ call.err = "none"
XColumn(X, c) == [i \in 1..NRows(X) |-> X.rows[i][c]]
Param(model, c) ==
    model.params.values[CHOOSE k \in 1..Len(model.params.index) :
                           model.params.index[k] = c]

\* two columns of the design matrix are equal, row by row
Collinear(X) ==
    \E c, d \in Columns(X) : c # d /\ XColumn(X, c) = XColumn(X, d)

\* a categorical column passed to prepare_regression_data has one level
SingleLevel(df, cats) == \E c \in Range(cats) : Cardinality(LevelSet(df, c)) = 1

\* C15 as stated: fit_ols_model ends with an error and returns no model
\* when the design matrix is built from a categorical column with a single
\* level or holds two perfectly collinear columns.
C15_SingularMatrixError ==
    (FitCalled /\ (Collinear(call.val.X) \/ SingleLevel(Arg, call.args[2]))) =>
        call.err # "none"

\* C15, amended: fit_ols_model raises no error on a design matrix that is
\* not of full rank.  It returns a model with one parameter per column: a
\* least-squares solution (the residuals are orthogonal to every column of
\* the matrix when no target value is missing) in which two perfectly
\* collinear (equal) columns get equal parameters; a categorical column
\* with a single level adds no column to the matrix.
C15_RankDeficientFit ==
    FitCalled =>
        LET X == call.val.X
            model == call.val.model
        IN /\ call.err = "none"
           /\ model.params.index = X.cols
           /\ Len(model.params.values) = Len(X.cols)
           /\ (\A i \in 1..NRows(X) : ~call.val.y.values[i].nan) =>
                 \A c \in Columns(X) :
                     Dot(XColumn(X, c), model.resid.values) = Num(0)
           /\ \A c, d \in Columns(X) :
                 XColumn(X, c) = XColumn(X, d) => Param(model, c) = Param(model, d)
           /\ \A c \in Range(call.args[2]) :
                 Cardinality(LevelSet(Arg, c)) = 1 => Indicators(Arg, X, c) = {}

\* a model fitted on a matrix whose two indicator columns are equal, with
\* non-zero parameters for them
C15_Witness ==
    /\ Fitted
    /\ call.val.X.cols = <<"const", "Dim1_Rural", "Location_Kenya">>
    /\ XColumn(call.val.X, "Dim1_Rural") = XColumn(call.val.X, "Location_Kenya")
    /\ Param(call.val.model, "Dim1_Rural") = Param(call.val.model, "Location_Kenya")
    /\ ~Param(call.val.model, "Dim1_Rural").nan
    /\ Param(call.val.model, "Dim1_Rural") # Num(0)

\* the rows of df that hold level l in column c, and the mean of the target
\* over a set of rows
GroupRows(df, c, l) ==
    {i \in 1..NRows(df) : ~df.rows[i][c].nan /\ df.rows[i][c].str = l}
TargetMean(df, G) ==
    Rat(SumSeq([i \in 1..NRows(df) |->
                   IF i \in G THEN df.rows[i][target_col].num ELSE 0]),
        Cardinality(G))
NoTargetMissing(df) == \A i \in 1..NRows(df) : ~df.rows[i][target_col].nan

\* the model of the last call reproduces the group means of column c: the
\* intercept is the mean of the level without indicator column, the
\* coefficient of the other level the difference of the two means, and the
\* fitted value of a row that holds a level the mean of that level
GroupMeansFit(df, c, X, model) ==
    \E ref \in LevelSet(df, c) :
        /\ ~HasColumn(X, Indicator(c, ref))
        /\ FEq(Param(model, "const"), TargetMean(df, GroupRows(df, c, ref)))
        /\ \A l \in LevelSet(df, c) \ {ref} :
              /\ HasColumn(X, Indicator(c, l))
              /\ FEq(Param(model, Indicator(c, l)),
                     FSub(TargetMean(df, GroupRows(df, c, l)),
                          TargetMean(df, GroupRows(df, c, ref))))
        /\ \A l \in LevelSet(df, c) : \A i \in GroupRows(df, c, l) :
              FEq(model.fittedvalues.values[i], TargetMean(df, GroupRows(df, c, l)))

\* a fit on the matrix of one categorical column with exactly two levels,
\* no target value missing
TwoLevelFit ==
    /\ Fitted
    /\ Len(call.args[2]) = 1
    /\ Cardinality(LevelSet(Arg, call.args[2][1])) = 2
    /\ NoTargetMissing(Arg)

\* C16 as stated: for a model fitted on the matrix of a single categorical
\* column with exactly two levels the intercept is the mean of the target
\* over the reference-level rows, the coefficient the mean over the other
\* level's rows minus that, and every fitted value its row's group mean.
C16_GroupMeans ==
    TwoLevelFit =>
        GroupMeansFit(Arg, call.args[2][1], call.val.X, call.val.model)

\* C16, amended: the same, for a table in which every row has a value in
\* the categorical column (and in the target).
C16_GroupMeansComplete ==
    (TwoLevelFit /\ \A i \in 1..NRows(Arg) : ~Arg.rows[i][call.args[2][1]].nan) =>
        GroupMeansFit(Arg, call.args[2][1], call.val.X, call.val.model)

\* three complete rows, two of them in the reference level with different
\* targets: the intercept is their mean, a fraction
C16_Witness ==
    /\ TwoLevelFit
    /\ NRows(Arg) = 3
    /\ \A i \in 1..3 : ~Arg.rows[i]["Dim1"].nan
    /\ Cardinality(GroupRows(Arg, "Dim1", "Cities")) = 2
    /\ Param(call.val.model, "const") = Rat(5, 2)
    /\ Param(call.val.model, "Dim1_Rural") = Rat(-3, 2)

\* the last call is a get_regression_diagnostics
Diagnosed == call.op = "get_regression_diagnostics" /\ call.err = "none"

\* Series.sum(): the sum of the entries that are not missing
SeriesSum(s) == QSum(DropNa(s.values))

\* C17: get_regression_diagnostics returns one fitted value and one residual
\* per row of the table, both indexed like its rows, with residual = target
\* - fitted on every row (NaN where the target, and so the fit, is NaN); the
\* residuals sum to zero.
C17_Diagnostics ==
    Diagnosed =>
        LET d == call.val.diagnostics IN
        /\ Len(d.fitted_values.values) = NRows(Arg)
        /\ Len(d.residuals.values) = NRows(Arg)
        /\ d.fitted_values.index = Arg.index
        /\ d.residuals.index = Arg.index
        /\ \A i \in 1..NRows(Arg) :
              LET t == Arg.rows[i][target_col]
                  f == d.fitted_values.values[i]
                  r == d.residuals.values[i]
              IN IF t.nan \/ f.nan THEN r.nan ELSE FEq(r, FSub(t, f))
        /\ SeriesSum(d.residuals) = Num(0)

\* diagnostics of a fit that is not exact: three rows without missing
\* target, a positive and a negative residual
C17_Witness ==
    /\ Diagnosed
    /\ NRows(Arg) = 3 /\ NoTargetMissing(Arg)
    /\ \E i, j \in 1..3 :
          /\ FGt(call.val.diagnostics.residuals.values[i], Num(0))
          /\ FLt(call.val.diagnostics.residuals.values[j], Num(0))

\* the pairs (index, value) of a table of residuals, and those of the rows
\* of a sequence that detect_outliers marks outlier_IQR = 1
Pairs(index, values) == [k \in 1..Len(values) |-> <<index[k], values[k]>>]
IqrFlagged(residuals) ==
    LET flag == outlier_IQR(residuals.values)
    IN SelectSeq([i \in 1..Len(residuals.values) |->
                     [pair |-> <<residuals.index[i], residuals.values[i]>>,
                      flag |-> flag[i]]],
                 LAMBDA e : e.flag = Num(1))

\* C18: for every sequence of residuals, the (index, residual) pairs
\* detect_residual_outliers returns are exactly those of the rows that
\* detect_outliers marks outlier_IQR = 1 on the residuals as value column,
\* with their index and value, in the original order.
C18_SameIqrRule ==
    call.op = "detect_residual_outliers" =>
        /\ call.val.cols = <<"Residuals">>
        /\ Pairs(call.val.index, Column(call.val, "Residuals")) =
              [k \in 1..Len(IqrFlagged(call.args[2])) |->
                  IqrFlagged(call.args[2])[k].pair]

\* the residuals of a fitted model, fractions, one of them returned with
\* its index while the others are not
C18_Witness ==
    /\ call.op = "detect_residual_outliers"
    /\ Arg = regression_outlier_df
    /\ call.args[2].values[1] = Rat(-5, 6)
    /\ call.val.index = <<3>>
    /\ Column(call.val, "Residuals") = <<Rat(25, 6)>>

\* a call of detect_residual_outliers on no residual, and a call of
\* prepare_regression_data on a table of no row that has the columns
EmptyResiduals ==
    call.op = "detect_residual_outliers" /\ Len(call.args[2].values) = 0
EmptyRegression ==
    /\ call.op = "prepare_regression_data"
    /\ NRows(Arg) = 0
    /\ Required(call) \subseteq Columns(Arg)

\* C19 as stated: an operation given an input of no row, detect_outliers,
\* detect_residual_outliers or prepare_regression_data, ends with an error
\* raised to the caller and returns no result.
C19_EmptyInputError ==
    (\/ EmptyResiduals
     \/ EmptyRegression
     \/ call.op = "detect_outliers" /\ HasColumn(Arg, ValueCol) /\ NRows(Arg) = 0)
        => call.err # "none" /\ call.val = NoVal /\ call.ret = 0

\* C19, amended: detect_residual_outliers given no residual raises nothing
\* and returns a table of the column Residuals with no row; only
\* prepare_regression_data given a table of no row ends with an error, the
\* ValueError of its fit, and returns nothing.
C19_EmptyInput ==
    /\ EmptyResiduals =>
          /\ call.err = "none"
          /\ call.val = [cols |-> <<"Residuals">>, index |-> <<>>, rows |-> <<>>]
    /\ EmptyRegression =>
          call.err = "ValueError" /\ call.val = NoVal /\ call.ret = 0

\* the value column of the empty table taken as residuals: a table of no
\* row comes back
C19_Witness ==
    /\ EmptyResiduals
    /\ Arg = empty_df
    /\ call.err = "none"
    /\ NRows(call.val) = 0

\* C20: the table load_data returns holds, besides the columns of the CSV,
\* a column 'Year' with the year of each row's 'Period'; the Urban PM2.5
\* Overview page, which reads df['Year'] right after load_data(), finds the
\* column after every load.
C20_YearColumn ==
    /\ \A csv \in Inputs :
          HasColumn(csv, "Period") =>
              /\ HasColumn(load_data(csv), "Year")
              /\ Column(load_data(csv), "Year") = Column(csv, "Period")
    /\ call.op = "urban_pm25_overview" => call.err = "none"

\* a call of apply_filters that returned, and the rows of its table that
\* meet the three conditions of the filter, each with its index label
Filtered == call.op = "apply_filters" /\ call.err = "none"
Passes(r, years, regions, dim1) ==
    /\ \E p \in years[1]..years[2] : r["Period"] = Num(p)
    /\ \E g \in regions : r["ParentLocation"] = Str(g)
    /\ \E d \in dim1 : r["Dim1"] = Str(d)
Passing(df, years, regions, dim1) ==
    SelectSeq([i \in 1..NRows(df) |-> [label |-> df.index[i], row |-> df.rows[i]]],
              LAMBDA e : Passes(e.row, years, regions, dim1))

\* C21: apply_filters(df, years, regions, dim1) returns exactly the rows of
\* df with years[0] <= Period <= years[1], ParentLocation in regions and
\* Dim1 in dim1, in their order, with their index labels and all columns as
\* they were; an empty list of regions or of dim1 gives a table of no row;
\* the same filter applied to the result returns the result.
C21_ApplyFilters ==
    Filtered =>
        LET years == call.args[2]
            regions == call.args[3]
            dim1 == call.args[4]
            kept == Passing(Arg, years, regions, dim1)
        IN /\ call.val.cols = Arg.cols
           /\ call.val.rows = [k \in 1..Len(kept) |-> kept[k].row]
           /\ call.val.index = [k \in 1..Len(kept) |-> kept[k].label]
           /\ (regions = {} \/ dim1 = {}) => NRows(call.val) = 0
           /\ apply_filters(call.val, years, regions, dim1) = call.val

\* a table of three rows of which the filter keeps the rows of the first
\* and of the last year of its range and drops the third
C21_Witness ==
    /\ Filtered
    /\ NRows(Arg) = 3
    /\ NRows(call.val) = 2
    /\ call.val.rows[1]["Period"] = Num(call.args[2][1])
    /\ call.val.rows[2]["Period"] = Num(call.args[2][2])
    /\ call.args[2][1] < call.args[2][2]

\* the summary of the report page: Before is the table detect_outliers
\* returned, After the rows of it with outlier_IQR = 0
Pipeline ==
    /\ call.op = "generate_cleaning_summary" /\ call.err = "none"
    /\ tabs[call.args[1]].by = "detect_outliers"
    /\ tabs[call.args[2]].by = "drop_outliers"
    /\ tabs[call.args[2]].from = call.args[1]

\* C22: in the summary of the report page, Total Rows Before less Total
\* Rows After is Total Outliers Before, Total Columns is the same before and
\* after, and the outlier_IQR column of the cleaned table sums to 0, the
\* value written for Total Outliers After.
C22_SummaryAccounts ==
    Pipeline =>
        LET m == call.val IN
        /\ m[1].Before - m[1].After = m[3].Before
        /\ m[2].Before = m[2].After
        /\ HasColumn(After, "outlier_IQR")
        /\ \A i \in 1..NRows(After) : After.rows[i]["outlier_IQR"] = Num(0)
        /\ m[3].After = 0

\* a summary of the page over a table with a missing value from which a
\* flagged row was removed
C22_Witness ==
    /\ Pipeline
    /\ SomeMissing(Before)
    /\ call.val[3].Before > 0
    /\ call.val[1].After > 0
    /\ call.val[1].After < call.val[1].Before

\* the runs of detect_outliers in the caller's chain of tables, and those
\* that flagged a row by the IQR rule
DetectRuns == {k \in 1..Len(tabs) : tabs[k].by = "detect_outliers"}
FlaggingRuns == {k \in DetectRuns : FlaggedRows(tabs[k].t) # {}}

\* C23: when detect-and-remove is repeated, a pass removes exactly the rows
\* it flags, so a pass that flags anything leaves fewer rows; a pass that
\* flags nothing leaves the table as it is and no later pass flags
\* anything; at most n passes flag a row of a table of n rows.
C23_RepeatedCleaning ==
    /\ \A k \in DetectRuns :
          /\ NRows(tabs[k + 1].t) =
                NRows(tabs[k].t) - Cardinality(FlaggedRows(tabs[k].t))
          /\ FlaggedRows(tabs[k].t) = {} =>
                /\ tabs[k + 1].t = tabs[k].t
                /\ \A j \in DetectRuns : j > k => FlaggedRows(tabs[j].t) = {}
    /\ Cardinality(FlaggingRuns) <= NRows(tabs[1].t)

\* the values 1..8, 14, 100: the first pass flags 100 and its summary shows
\* 0 outliers after cleaning, the second pass flags 14 in the cleaned table,
\* the third flags nothing
C23_Witness ==
    /\ tabs[1].t = cascade_df
    /\ Len(tabs) = 7
    /\ generate_cleaning_summary(tabs[2].t, tabs[3].t)[3].After = 0
    /\ \E i \in 1..NRows(tabs[3].t) :
          /\ tabs[3].t.rows[i][ValueCol] = Num(14)
          /\ tabs[3].t.rows[i]["outlier_IQR"] = Num(0)
          /\ tabs[4].t.rows[i]["outlier_IQR"] = Num(1)
    /\ Cardinality(FlaggedRows(tabs[4].t)) = 1
    /\ FlaggedRows(tabs[6].t) = {}
    /\ NRows(tabs[7].t) = 8

\* the values of the rows of a table that are not missing, as integers
Present(df) ==
    LET cells == SelectSeq(Column(df, ValueCol), LAMBDA c : ~c.nan)
    IN [k \in 1..Len(cells) |-> cells[k].num]

\* C24: when the value column has a missing entry, detect_outliers gives
\* every row, missing or not, a NaN z_score and outlier_z = 0, while
\* outlier_IQR is 1 exactly on the rows strictly outside the bounds
\* computed from the quartiles of the values that are not missing.
C24_NaNPoisonsZ ==
    (Detected /\ SomeMissing(Arg)) =>
        \A i \in 1..NRows(Arg) :
            /\ Ret.rows[i]["z_score"].nan
            /\ Ret.rows[i]["outlier_z"] = Num(0)
            /\ Ret.rows[i]["outlier_IQR"] =
                  Flag(/\ ~Arg.rows[i][ValueCol].nan
                       /\ \/ 8 * Values(Arg)[i] < Lower8(Present(Arg))
                          \/ 8 * Values(Arg)[i] > Upper8(Present(Arg)))

\* a column with a missing entry and a value more than three standard
\* deviations from the mean of the others: flagged by the IQR rule, not by
\* the Z rule
C24_Witness ==
    /\ Detected /\ SomeMissing(Arg)
    /\ \E i \in 1..NRows(Arg) :
          /\ ~Arg.rows[i][ValueCol].nan
          /\ \E k \in 1..Len(Present(Arg)) :
                Present(Arg)[k] = Values(Arg)[i] /\ ZAbove3(Present(Arg), k)
          /\ Ret.rows[i]["outlier_IQR"] = Num(1)
          /\ Ret.rows[i]["outlier_z"] = Num(0)
          /\ Ret.rows[i]["z_score"].nan

\* C25: the z_score of a row is |x - mean| / std with std the population
\* standard deviation (divisor n): its square times n*SS - S^2 is
\* (n*x - S)^2.  It is at most sqrt(n - 1), so on a table of at most 10
\* rows outlier_z is 0 on every row.
C25_PopulationStd ==
    Detected =>
        /\ NRows(Arg) <= 10 =>
              \A i \in 1..NRows(Arg) : Ret.rows[i]["outlier_z"] = Num(0)
        /\ NoMissing(Arg) =>
              LET v == Values(Arg)
                  n == Len(v)
                  V == n * SumSq(v) - Sum(v) * Sum(v)
              IN \A i \in 1..n :
                    LET z == Ret.rows[i]["z_score"]
                        d == n * v[i] - Sum(v)
                    IN IF V = 0 THEN z.nan
                       ELSE /\ ~z.nan
                            /\ z.sqnum * (V \div GCD(V, z.sqden)) =
                                 d * d * (z.sqden \div GCD(V, z.sqden))
                            /\ z.sqnum <= (n - 1) * z.sqden

\* eleven rows, the smallest table with a row flagged by the Z rule: ten
\* times 1 and once 20, z = sqrt(10) on the last row
C25_Witness ==
    /\ Detected
    /\ NRows(Arg) = 11
    /\ Ret.rows[NRows(Arg)]["outlier_z"] = Num(1)
    /\ Ret.rows[NRows(Arg)]["z_score"].sqnum =
          10 * Ret.rows[NRows(Arg)]["z_score"].sqden

\* a value column with a row, without a missing entry, all entries equal
AllEqual(df) ==
    /\ NRows(df) > 0
    /\ NoMissing(df)
    /\ \A i, j \in 1..NRows(df) : Values(df)[i] = Values(df)[j]

\* C26: on a value column whose entries are all equal detect_outliers flags
\* no row by either rule and every z_score is NaN; on any column two rows
\* of equal value get the same outlier_IQR and the same outlier_z.
C26_EqualValues ==
    Detected =>
        /\ AllEqual(Arg) =>
              \A i \in 1..NRows(Arg) :
                  /\ Ret.rows[i]["outlier_IQR"] = Num(0)
                  /\ Ret.rows[i]["outlier_z"] = Num(0)
                  /\ Ret.rows[i]["z_score"].nan
        /\ \A i, j \in 1..NRows(Arg) :
              Arg.rows[i][ValueCol] = Arg.rows[j][ValueCol] =>
                  /\ Ret.rows[i]["outlier_IQR"] = Ret.rows[j]["outlier_IQR"]
                  /\ Ret.rows[i]["outlier_z"] = Ret.rows[j]["outlier_z"]

\* three rows of one value, none flagged, and their z_score NaN
C26_Witness ==
    /\ Detected
    /\ AllEqual(Arg)
    /\ NRows(Arg) = 3
    /\ FlaggedRows(Ret) = {}
    /\ \A i \in 1..NRows(Arg) :
          Ret.rows[i]["z_score"].nan /\ Ret.rows[i]["outlier_z"] = Num(0)

\* the rows of a table with outlier_IQR = 1, as pairs of index label and row
FlaggedPairs(df) == {<<df.index[i], df.rows[i]>> : i \in FlaggedRows(df)}

\* C27: the sample of removed outliers is drawn after the summary was
\* returned; with fewer than 5 rows of outlier_IQR = 1 the draw ends in a
\* ValueError and shows nothing; with 5 or more it shows exactly 5 of the
\* flagged rows, no row twice.
C27_SampleOfFive ==
    [][call'.op = "sample" =>
          LET df == tabs[call'.args[1]].t IN
          /\ call.op = "generate_cleaning_summary" /\ call.err = "none"
          /\ call.val[3].Before = Cardinality(FlaggedRows(df))
          /\ IF Cardinality(FlaggedRows(df)) < 5
             THEN call'.err = "ValueError" /\ call'.val = NoVal
             ELSE /\ call'.err = "none"
                  /\ NRows(call'.val) = 5
                  /\ call'.val.cols = df.cols
                  /\ \A k \in 1..5 :
                        <<call'.val.index[k], call'.val.rows[k]>> \in FlaggedPairs(df)
                  /\ \A a, b \in 1..5 :
                        a # b => call'.val.index[a] # call'.val.index[b]]_vars

\* four flagged rows, and the step has ended in the error
C27_Witness ==
    /\ call.op = "sample" /\ call.err = "ValueError"
    /\ Cardinality(FlaggedRows(Arg)) = 4

=============================================================================
